---- MODULE Spec2Model ----
(***************************************************************************)
(* Model of the routing-correctness checker test/verify_routing.py of the  *)
(* KoordeDHT web cache tooling: the module globals NUM_NODES, ID_BITS and  *)
(* BYTE_LEN, load_config, get_id_from_string, get_node_ids,                *)
(* get_responsible_node and the run of test_routing of verify_routing.py,  *)
(* and the Stats object of the load test, deploy/ecs/locustfile.py.        *)
(*                                                                         *)
(* Representation.                                                         *)
(*  - A Python str is a sequence of code points ("10" is <<49, 48>>), so   *)
(*    that bytes.hex(), int(s, 16) and string comparison are computed and  *)
(*    not assumed.                                                         *)
(*  - A Python int that may exceed 31 bits (int(hex, 16) of a 66-bit or    *)
(*    160-bit identifier) is a sequence of hex digit values, most          *)
(*    significant first, without leading zeros (<<>> is 0): Python ints do *)
(*    not overflow, and neither does this representation.                  *)
(*  - hashlib.sha1 is a library function: it is the table sha1, fixed      *)
(*    for a behaviour, from messages (byte strings) to 20-byte digests.    *)
(*  - A call's outcome is [kind, val]: kind "ok" with the returned value,  *)
(*    or the name of the Python exception raised with val <<>>.            *)
(***************************************************************************)
EXTENDS Integers, Sequences, FiniteSets, TLC

VARIABLES
    NUM_NODES,  \* module global, verify_routing.py:9
    ID_BITS,    \* module global, verify_routing.py:10
    BYTE_LEN,   \* module global, verify_routing.py:11
    sha1,       \* hashlib.sha1(m).digest() for every message m hashed
    cfg,        \* the configuration input read by the last load_config
    last,       \* the last get_id_from_string / load_config call and outcome
    prev,       \* an earlier get_id_from_string call kept for comparison
    key_hex,    \* argument of get_responsible_node; key_hex of test_routing
    node_ids,   \* argument of get_responsible_node; node_ids of test_routing
    owner,      \* outcome of the get_responsible_node call, or NoCall
    pc,         \* where test_routing stands ("idle": it is not running)
    idx,        \* how many urls the for loop of line 110 has taken
    match_count,    \* local of test_routing, line 103
    total_count,    \* local of test_routing, line 104
    out,        \* the lines printed, in order
    reqs,       \* the urls requested from the collaborator, in order
    results,    \* per url taken: key, expected owner, response, verdict
    crash,      \* the exception that ended test_routing, "" when none did
    run,        \* 1 in the first call of test_routing, 2 in the second
    firstRun,   \* results and counts of the first call, once it is over
    order,      \* the order in which the call under way takes the urls
    stats       \* locustfile.py: the fields of the module's Stats object

vars == <<NUM_NODES, ID_BITS, BYTE_LEN, sha1, cfg, last, prev,
          key_hex, node_ids, owner,
          pc, idx, match_count, total_count, out, reqs, results, crash,
          run, firstRun, order, stats>>

globals == <<NUM_NODES, ID_BITS, BYTE_LEN>>

runVars == <<pc, idx, match_count, total_count, out, reqs, results, crash,
             run, firstRun, order>>

-----------------------------------------------------------------------------
(* Outcomes of calls *)

NoCall == [kind |-> "none", val |-> <<>>]

Ok(v) == [kind |-> "ok", val |-> v]

Raise(e) == [kind |-> e, val |-> <<>>]

-----------------------------------------------------------------------------
(* Strings of hex digits and Python ints *)

\* bytes.hex() writes each nibble as one of "0123456789abcdef".
HexChar(d) == IF d < 10 THEN 48 + d ELSE 87 + d

\* The characters int(s, 16) accepts as digits: 0-9, a-f and A-F.
IsHexChar(c) == (48 <= c /\ c <= 57) \/ (97 <= c /\ c <= 102) \/ (65 <= c /\ c <= 70)

DigitOf(c) == IF c <= 57 THEN c - 48 ELSE IF c >= 97 THEN c - 87 ELSE c - 55

\* A Python int: its hex digits without leading zeros.
RECURSIVE StripZeros(_)
StripZeros(ds) ==
    IF ds = <<>> THEN <<>>
    ELSE IF Head(ds) = 0 THEN StripZeros(Tail(ds)) ELSE ds

\* int(s, 16) for a string of hex digits; anything else, the empty string
\* included, raises ValueError.
IntHex(s) ==
    IF s = <<>> \/ \E i \in 1..Len(s) : ~IsHexChar(s[i])
    THEN Raise("ValueError")
    ELSE Ok(StripZeros([i \in 1..Len(s) |-> DigitOf(s[i])]))

\* a < b on sequences of equal length, position by position (also str < str
\* on strings of equal length).
RECURSIVE LexLess(_, _)
LexLess(a, b) ==
    IF a = <<>> \/ b = <<>> THEN a = <<>> /\ b # <<>>
    ELSE IF Head(a) # Head(b) THEN Head(a) < Head(b)
    ELSE LexLess(Tail(a), Tail(b))

\* a >= b on Python ints.
IntGe(a, b) ==
    IF Len(a) # Len(b) THEN Len(a) > Len(b) ELSE ~LexLess(a, b)

-----------------------------------------------------------------------------
(* get_responsible_node, verify_routing.py:70-80 *)

\* Faulty variants of the scan, against which the properties are tried:
\* a strict comparison (> for >=), no wrap-around (an index past the end),
\* and a wrap to the last entry (node_ids[-1]).
RECURSIVE ScanFromStrict(_, _, _)
ScanFromStrict(key_int, ids, i) ==
    IF i > Len(ids)
    THEN IF ids = <<>> THEN Raise("IndexError") ELSE Ok(ids[1])
    ELSE LET node_int == IntHex(ids[i])
         IN  IF node_int.kind # "ok" THEN node_int
             ELSE IF ~IntGe(key_int, node_int.val) THEN Ok(ids[i])
             ELSE ScanFromStrict(key_int, ids, i + 1)

RECURSIVE ScanFromNoWrap(_, _, _)
ScanFromNoWrap(key_int, ids, i) ==
    IF i > Len(ids)
    THEN Raise("IndexError")
    ELSE LET node_int == IntHex(ids[i])
         IN  IF node_int.kind # "ok" THEN node_int
             ELSE IF IntGe(node_int.val, key_int) THEN Ok(ids[i])
             ELSE ScanFromNoWrap(key_int, ids, i + 1)

RECURSIVE ScanFromWrapLast(_, _, _)
ScanFromWrapLast(key_int, ids, i) ==
    IF i > Len(ids)
    THEN IF ids = <<>> THEN Raise("IndexError") ELSE Ok(ids[Len(ids)])
    ELSE LET node_int == IntHex(ids[i])
         IN  IF node_int.kind # "ok" THEN node_int
             ELSE IF IntGe(node_int.val, key_int) THEN Ok(ids[i])
             ELSE ScanFromWrapLast(key_int, ids, i + 1)

\* The for loop of lines 74-77 from position i on, then line 80.
RECURSIVE ScanFrom(_, _, _)
ScanFrom(key_int, ids, i) ==
    IF i > Len(ids)
    THEN IF ids = <<>> THEN Raise("IndexError") ELSE Ok(ids[1])
    ELSE LET node_int == IntHex(ids[i])
         IN  IF node_int.kind # "ok" THEN node_int
             ELSE IF IntGe(node_int.val, key_int) THEN Ok(ids[i])
             ELSE ScanFrom(key_int, ids, i + 1)

get_responsible_node(k, ids) ==
    LET key_int == IntHex(k)
    IN  IF key_int.kind # "ok" THEN key_int
        ELSE ScanFrom(key_int.val, ids, 1)

-----------------------------------------------------------------------------
(* get_id_from_string, verify_routing.py:46-59 *)

\* hashlib.sha1(...).digest() is 20 bytes long.
DigestLen == 20

\* x >> n for 0 <= x < 2^31 and n >= 0.
ShiftRight(x, n) == IF n >= 31 THEN 0 ELSE x \div (2 ^ n)

\* x & y on non-negative Python ints, bit by bit.
RECURSIVE BitAnd(_, _)
BitAnd(x, y) ==
    IF x = 0 \/ y = 0 THEN 0
    ELSE (x % 2) * (y % 2) + 2 * BitAnd(x \div 2, y \div 2)

\* h[:n] on a bytes object: a negative n counts from the end, and a bound
\* beyond either end is clipped.
SliceTo(h, n) ==
    LET stop == IF n >= 0 THEN (IF n > Len(h) THEN Len(h) ELSE n)
                ELSE (IF Len(h) + n < 0 THEN 0 ELSE Len(h) + n)
    IN  SubSeq(h, 1, stop)

\* Faulty variant: the low nibble of each byte written first.
BytesHexSwapped(buf) ==
    [i \in 1..(2 * Len(buf)) |->
        LET b == buf[(i + 1) \div 2]
        IN  IF i % 2 = 1 THEN HexChar(b % 16) ELSE HexChar(b \div 16)]

\* Faulty variant: the digits of the number without its leading zeros, as
\* format(int, "x") writes them.
RECURSIVE DropLeadingZeros(_)
DropLeadingZeros(str) ==
    IF Len(str) <= 1 \/ str[1] # 48 THEN str ELSE DropLeadingZeros(Tail(str))

BytesHexUnpadded(buf) ==
    DropLeadingZeros([i \in 1..(2 * Len(buf)) |->
        LET b == buf[(i + 1) \div 2]
        IN  IF i % 2 = 1 THEN HexChar(b \div 16) ELSE HexChar(b % 16)])

\* bytes.hex(): two lower-case hex characters per byte.
BytesHex(buf) ==
    [i \in 1..(2 * Len(buf)) |->
        LET b == buf[(i + 1) \div 2]
        IN  IF i % 2 = 1 THEN HexChar(b \div 16) ELSE HexChar(b % 16)]

\* Faulty variant: the mask one bit too wide (0xFF >> (extra_bits - 1)).
MaskFirstByteOffByOne(buf, extra_bits) ==
    IF extra_bits > 0
    THEN IF buf = <<>> THEN Raise("IndexError")
         ELSE Ok([buf EXCEPT ![1] = BitAnd(buf[1], ShiftRight(255, extra_bits - 1))])
    ELSE Ok(buf)

\* Lines 54-57: the mask applied to buf[0]; buf[0] of an empty bytearray
\* raises IndexError.
MaskFirstByte(buf, extra_bits) ==
    IF extra_bits > 0
    THEN IF buf = <<>> THEN Raise("IndexError")
         ELSE Ok([buf EXCEPT ![1] = BitAnd(buf[1], ShiftRight(255, extra_bits))])
    ELSE Ok(buf)

\* Faulty variant: the bytes copied one by one (h[i] for i in
\* range(BYTE_LEN)) instead of sliced, which fails past the digest's end.
DeriveFromIndexed(h, byte_len, id_bits) ==
    IF byte_len > Len(h) THEN Raise("IndexError")
    ELSE LET buf    == SliceTo(h, byte_len)
             masked == MaskFirstByte(buf, byte_len * 8 - id_bits)
         IN  IF masked.kind # "ok" THEN masked ELSE Ok(BytesHex(masked.val))

\* The function body on the digest h under the globals' current values.
DeriveFrom(h, byte_len, id_bits) ==
    LET buf    == SliceTo(h, byte_len)
        masked == MaskFirstByte(buf, byte_len * 8 - id_bits)
    IN  IF masked.kind # "ok" THEN masked ELSE Ok(BytesHex(masked.val))

\* A code point str.encode('utf-8') refuses: a surrogate, U+D800..U+DFFF.
IsSurrogate(c) == 55296 <= c /\ c <= 57343

\* The UTF-8 bytes of one code point.
Utf8Bytes(c) ==
    IF c < 128 THEN <<c>>
    ELSE IF c < 2048 THEN <<192 + (c \div 64), 128 + (c % 64)>>
    ELSE IF c < 65536
    THEN <<224 + (c \div 4096), 128 + ((c \div 64) % 64), 128 + (c % 64)>>
    ELSE <<240 + (c \div 262144), 128 + ((c \div 4096) % 64),
           128 + ((c \div 64) % 64), 128 + (c % 64)>>

RECURSIVE Utf8Concat(_)
Utf8Concat(s) ==
    IF s = <<>> THEN <<>> ELSE Utf8Bytes(Head(s)) \o Utf8Concat(Tail(s))

\* s.encode('utf-8'), line 48: raises UnicodeEncodeError on a surrogate.
Utf8Encode(s) ==
    IF \E i \in 1..Len(s) : IsSurrogate(s[i])
    THEN Raise("UnicodeEncodeError")
    ELSE Ok(Utf8Concat(s))

get_id_from_string(s) ==
    LET m == Utf8Encode(s)
    IN  IF m.kind # "ok" THEN m ELSE DeriveFrom(sha1[m.val], BYTE_LEN, ID_BITS)

-----------------------------------------------------------------------------
(* Module load and load_config, verify_routing.py:8-43 *)

DefaultNumNodes == 8

DefaultIdBits == 66

\* Line 11 and line 43; // is floor division, as is \div.
ByteLenOf(id_bits) == (id_bits + 7) \div 8

\* A field of the JSON object: not there, an integer, or a value int()
\* rejects with ValueError.
Missing == [tag |-> "missing", val |-> 0]

IntField(n) == [tag |-> "int", val |-> n]

BadField == [tag |-> "bad", val |-> 0]

\* The configuration input: no file, a file that cannot be read or parsed,
\* or a JSON object.
NoConfig == [state |-> "absent", NUM_NODES |-> Missing, ID_BITS |-> Missing]

Unreadable == [state |-> "unreadable", NUM_NODES |-> Missing, ID_BITS |-> Missing]

JsonConfig(n, b) == [state |-> "json", NUM_NODES |-> n, ID_BITS |-> b]

\* Faulty variant: BYTE_LEN computed before ID_BITS is assigned, from the
\* value ID_BITS had.
load_config_stale(c) ==
    LET old == [NUM_NODES |-> NUM_NODES, ID_BITS |-> ID_BITS, BYTE_LEN |-> BYTE_LEN]
    IN  IF c.state # "json"
        THEN [out |-> Ok(<<>>), g |-> old]
        ELSE IF c.NUM_NODES.tag = "bad"
        THEN [out |-> Raise("ValueError"), g |-> old]
        ELSE LET g1 == IF c.NUM_NODES.tag = "int"
                       THEN [old EXCEPT !.NUM_NODES = c.NUM_NODES.val]
                       ELSE old
             IN  IF c.ID_BITS.tag = "bad"
                 THEN [out |-> Raise("ValueError"), g |-> g1]
                 ELSE LET g2 == IF c.ID_BITS.tag = "int"
                                THEN [g1 EXCEPT !.ID_BITS = c.ID_BITS.val]
                                ELSE g1
                      IN  [out |-> Ok(<<>>),
                           g   |-> [g2 EXCEPT !.BYTE_LEN = ByteLenOf(old.ID_BITS)]]

\* Faulty variant: a file that cannot be read or parsed is an error (no
\* try statement at lines 31-36).
load_config_unguarded(c) ==
    LET old == [NUM_NODES |-> NUM_NODES, ID_BITS |-> ID_BITS, BYTE_LEN |-> BYTE_LEN]
    IN  IF c.state = "absent"
        THEN [out |-> Ok(<<>>), g |-> old]
        ELSE IF c.state = "unreadable"
        THEN [out |-> Raise("JSONDecodeError"), g |-> old]
        ELSE IF c.NUM_NODES.tag = "bad"
        THEN [out |-> Raise("ValueError"), g |-> old]
        ELSE LET g1 == IF c.NUM_NODES.tag = "int"
                       THEN [old EXCEPT !.NUM_NODES = c.NUM_NODES.val]
                       ELSE old
             IN  IF c.ID_BITS.tag = "bad"
                 THEN [out |-> Raise("ValueError"), g |-> g1]
                 ELSE LET g2 == IF c.ID_BITS.tag = "int"
                                THEN [g1 EXCEPT !.ID_BITS = c.ID_BITS.val]
                                ELSE g1
                      IN  [out |-> Ok(<<>>),
                           g   |-> [g2 EXCEPT !.BYTE_LEN = ByteLenOf(g2.ID_BITS)]]

\* load_config on the input c: the outcome and the globals it leaves.
\* Lines 28-36 return early; lines 38-41 assign in order, and an int() that
\* raises leaves the assignments made before it; line 43 ends the function.
load_config(c) ==
    LET old == [NUM_NODES |-> NUM_NODES, ID_BITS |-> ID_BITS, BYTE_LEN |-> BYTE_LEN]
    IN  IF c.state # "json"
        THEN [out |-> Ok(<<>>), g |-> old]
        ELSE IF c.NUM_NODES.tag = "bad"
        THEN [out |-> Raise("ValueError"), g |-> old]
        ELSE LET g1 == IF c.NUM_NODES.tag = "int"
                       THEN [old EXCEPT !.NUM_NODES = c.NUM_NODES.val]
                       ELSE old
             IN  IF c.ID_BITS.tag = "bad"
                 THEN [out |-> Raise("ValueError"), g |-> g1]
                 ELSE LET g2 == IF c.ID_BITS.tag = "int"
                                THEN [g1 EXCEPT !.ID_BITS = c.ID_BITS.val]
                                ELSE g1
                      IN  [out |-> Ok(<<>>),
                           g   |-> [g2 EXCEPT !.BYTE_LEN = ByteLenOf(g2.ID_BITS)]]

-----------------------------------------------------------------------------
(* Inputs *)

\* Largest ring drawn for get_responsible_node.
MaxRing == 3

\* The two hex characters of a one-byte identifier.
Hex2(b) == <<HexChar(b \div 16), HexChar(b % 16)>>

\* One-byte identifiers: 0x00, 0x05, 0x10, 0x50, 0x90, 0x95, 0xff.
SampleIds == {Hex2(b) : b \in {0, 5, 16, 80, 144, 149, 255}}

\* The value of a string of hex digits short enough for a machine integer.
RECURSIVE HexVal(_)
HexVal(s) ==
    IF s = <<>> THEN 0
    ELSE 16 * HexVal(SubSeq(s, 1, Len(s) - 1)) + DigitOf(s[Len(s)])

IsSortedRing(r) == \A i, j \in 1..Len(r) : i < j => HexVal(r[i]) <= HexVal(r[j])

\* Rings as get_node_ids leaves them: ascending, equal identifiers allowed.
SortedRings ==
    {r \in UNION {[1..n -> SampleIds] : n \in 0..MaxRing} : IsSortedRing(r)}

\* str(i) for 0 <= i, the decimal digits of i.
RECURSIVE Decimal(_)
Decimal(i) == IF i < 10 THEN <<48 + i>> ELSE Decimal(i \div 10) \o <<48 + (i % 10)>>

\* f"koorde-node-{i}", line 65.
NodeName(i) == <<107, 111, 111, 114, 100, 101, 45, 110, 111, 100, 101, 45>> \o Decimal(i)

\* A str outside ASCII, U+00E9 U+20AC, and a str of one lone surrogate, U+D800.
AccentedName == <<233, 8364>>

SurrogateName == <<55296>>

\* Strings whose identifier is derived.
Names == {NodeName(0), AccentedName, SurrogateName}

\* The messages hashed: the encodings of the names that have one.
MessageList == <<Utf8Encode(NodeName(0)).val, Utf8Encode(AccentedName).val>>

\* 20-byte digests: the first byte given, the others fill+2, fill+3, ...
Digest(first, fill) ==
    [i \in 1..DigestLen |-> IF i = 1 THEN first ELSE (fill + i) % 256]

\* 0xff first with a high and with a low tail, 0xa5 first, and 0x00 first.
DigestList == <<Digest(255, 236), Digest(255, 0), Digest(165, 0), Digest(0, 236)>>

\* SHA-1 tables: distinct messages have distinct digests, and each message
\* takes each digest of the list in some table.
Sha1Tables ==
    {[m \in {MessageList[j] : j \in 1..Len(MessageList)} |->
        LET j == CHOOSE k \in 1..Len(MessageList) : MessageList[k] = m
        IN  DigestList[((i + j - 2) % Len(DigestList)) + 1]] :
        i \in 1..Len(DigestList)}

\* Values of ID_BITS a configuration may carry: not positive, one bit, a
\* whole byte, one bit more, the whole digest, and more than the digest.
BitsValues == {-1, 1, 8, 9, 160, 161}

\* The configuration inputs of the identifier derivation: ID_BITS in every
\* form, and NUM_NODES (which no derivation reads) alone.
DeriveConfigs ==
    {NoConfig, Unreadable, JsonConfig(IntField(3), Missing)}
    \cup {JsonConfig(Missing, b) :
            b \in {Missing, BadField} \cup {IntField(v) : v \in BitsValues}}

-----------------------------------------------------------------------------
(* Calls of the module's functions *)

\* A record of a call: the function, its outcome and, for
\* get_id_from_string, the name it was given and ID_BITS and BYTE_LEN when
\* it was called; reloaded tells that load_config ran, or a new process
\* started, after the call.
NoApiCall ==
    [fn |-> "none", name |-> <<>>, bits |-> 0, bytes |-> 0, out |-> NoCall,
     reloaded |-> FALSE]

\* The call kept in prev, once the configuration was loaded again.
Reloaded(c) == IF c.fn = "none" THEN c ELSE [c EXCEPT !.reloaded = TRUE]

\* What a call of test_routing leaves for comparison with a second call.
NoRun == [results |-> <<>>, match_count |-> 0, total_count |-> 0, over |-> FALSE]

\* locustfile.py is not loaded: there is no Stats object.
NoStats ==
    [requests |-> 0, hits |-> 0, misses |-> 0, errors |-> 0, start_time |-> 0]

\* test_routing is not running.
RunIdle ==
    /\ pc = "idle"
    /\ idx = 0
    /\ match_count = 0
    /\ total_count = 0
    /\ out = <<>>
    /\ reqs = <<>>
    /\ results = <<>>
    /\ crash = ""
    /\ run = 1
    /\ firstRun = NoRun
    /\ order = <<>>

\* The module as loaded (lines 9-11), before any call.
ModuleLoaded ==
    /\ NUM_NODES = DefaultNumNodes
    /\ ID_BITS = DefaultIdBits
    /\ BYTE_LEN = ByteLenOf(DefaultIdBits)
    /\ cfg = NoConfig
    /\ last = NoApiCall

\* load_config() with the configuration input c in place.
LoadConfig(c) ==
    LET r == load_config(c)
    IN  /\ NUM_NODES' = r.g.NUM_NODES
        /\ ID_BITS' = r.g.ID_BITS
        /\ BYTE_LEN' = r.g.BYTE_LEN
        /\ cfg' = c
        /\ last' = [fn |-> "load_config", name |-> <<>>, bits |-> 0,
                    bytes |-> 0, out |-> r.out, reloaded |-> FALSE]
        /\ prev' = Reloaded(prev)
        /\ UNCHANGED <<sha1, stats, key_hex, node_ids, owner, runVars>>

\* get_id_from_string(s). The function declares no global, so it assigns
\* none. The call before it is kept in prev, or not, for later comparison.
GetId(s) ==
    /\ last' = [fn |-> "get_id_from_string", name |-> s, bits |-> ID_BITS,
                bytes |-> BYTE_LEN, out |-> get_id_from_string(s),
                reloaded |-> FALSE]
    /\ \/ prev' = prev
       \/ last.fn = "get_id_from_string" /\ prev' = last
    /\ UNCHANGED <<globals, sha1, stats, cfg, key_hex, node_ids, owner, runVars>>

\* A new process: the module is loaded again; SHA-1 is the same function.
Restart ==
    /\ ~ModuleLoaded
    /\ NUM_NODES' = DefaultNumNodes
    /\ ID_BITS' = DefaultIdBits
    /\ BYTE_LEN' = ByteLenOf(DefaultIdBits)
    /\ cfg' = NoConfig
    /\ last' = NoApiCall
    /\ prev' = Reloaded(prev)
    /\ UNCHANGED <<sha1, stats, key_hex, node_ids, owner, runVars>>

\* get_responsible_node(key_hex, node_ids).
FindOwner ==
    /\ owner = NoCall
    /\ owner' = get_responsible_node(key_hex, node_ids)
    /\ UNCHANGED <<globals, sha1, stats, cfg, last, prev, key_hex, node_ids, runVars>>

-----------------------------------------------------------------------------
(* Specifications *)

\* get_responsible_node on every sorted ring and key drawn.
InitOwner ==
    /\ ModuleLoaded
    /\ sha1 \in {t \in Sha1Tables : t[MessageList[1]] = DigestList[1]}
    /\ prev = NoApiCall
    /\ key_hex \in SampleIds
    /\ node_ids \in SortedRings
    /\ owner = NoCall
    /\ RunIdle
    /\ stats = NoStats

NextOwner == FindOwner

SpecOwner == InitOwner /\ [][NextOwner]_vars

\* load_config and get_id_from_string called in any order, over process runs.
InitDerive ==
    /\ ModuleLoaded
    /\ sha1 \in Sha1Tables
    /\ prev = NoApiCall
    /\ key_hex = <<>>
    /\ node_ids = <<>>
    /\ owner = NoCall
    /\ RunIdle
    /\ stats = NoStats

NextDerive ==
    \/ \E c \in DeriveConfigs : LoadConfig(c)
    \/ \E s \in Names : GetId(s)
    \/ Restart

SpecDerive == InitDerive /\ [][NextDerive]_vars

-----------------------------------------------------------------------------
(* Properties of get_responsible_node, under SpecOwner *)

\* The ring and the key as unsigned integers.
RingVals == [i \in 1..Len(node_ids) |-> HexVal(node_ids[i])]

KeyVal == HexVal(key_hex)

RingMin == RingVals[1]

RingMax == RingVals[Len(node_ids)]

Called == owner # NoCall

\* The least element of a non-empty set of integers.
Least(S) == CHOOSE x \in S : \A y \in S : x <= y

\* The positions of the ring entries whose value is >= key.
AtLeastKey == {i \in 1..Len(node_ids) : RingVals[i] >= KeyVal}

\* C1: on a non-empty ring sorted ascending, the call returns the first
\* entry whose unsigned value is >= key, and the first (smallest) entry of
\* the ring when no entry is >= key.
C1_SuccessorRule ==
    (Called /\ node_ids # <<>>) =>
        owner = Ok(IF AtLeastKey = {} THEN node_ids[1]
                   ELSE node_ids[Least(AtLeastKey)])

\* A ring of three distinct entries and a key strictly between the first
\* two: the owner is the second entry.
C1_Witness ==
    /\ Called
    /\ Len(node_ids) = 3
    /\ RingVals[1] < KeyVal /\ KeyVal < RingVals[2] /\ RingVals[2] < RingVals[3]
    /\ owner = Ok(node_ids[2])

\* C2: on a non-empty ring the call never fails and returns a member of
\* the ring.
C2_Total ==
    (Called /\ node_ids # <<>>) =>
        /\ owner.kind = "ok"
        /\ \E i \in 1..Len(node_ids) : owner.val = node_ids[i]

\* A key above every entry of a ring of two: the call returns a member.
C2_Witness ==
    /\ Called
    /\ Len(node_ids) = 2
    /\ RingMin < RingMax /\ KeyVal > RingMax
    /\ owner.kind = "ok"
    /\ owner.val \in {node_ids[1], node_ids[2]}

\* C3 as stated: for a key with key <= min(ring) or key > max(ring), the
\* owner is the ring's minimum exactly when key > max(ring).
C3_MinimumOnlyOnWrap ==
    (Called /\ node_ids # <<>> /\ (KeyVal <= RingMin \/ KeyVal > RingMax)) =>
        ((owner.kind = "ok" /\ HexVal(owner.val) = RingMin) <=> KeyVal > RingMax)

\* C3 amended: the owner is the ring's minimum exactly when
\* key <= min(ring) or key > max(ring), that is in both cases of the claim;
\* key > max(ring) is the wrap-around case.
C3_MinimumBelowAndOnWrap ==
    (Called /\ node_ids # <<>>) =>
        /\ owner.kind = "ok"
        /\ HexVal(owner.val) = RingMin <=> (KeyVal <= RingMin \/ KeyVal > RingMax)

\* A key below the minimum of a ring of distinct entries, owned by the
\* minimum without any wrap-around.
C3_Witness ==
    /\ Called
    /\ Len(node_ids) = 3
    /\ KeyVal < RingMin /\ RingMin < RingVals[2]
    /\ owner = Ok(node_ids[1])

\* k lies in the circular half-open interval (p, n]; (n, n] is the whole
\* identifier space, the interval of the only node of a ring.
InInterval(k, p, n) ==
    IF p < n THEN p < k /\ k <= n ELSE k > p \/ k <= n

\* The position before i on the ring; the last one before the first.
PredPos(i) == IF i = 1 THEN Len(node_ids) ELSE i - 1

DistinctRing == \A i, j \in 1..Len(node_ids) : i < j => RingVals[i] < RingVals[j]

\* C4: on a ring of distinct identifiers every entry n is the owner exactly
\* of the keys in (pred(n), n], the interval of the smallest entry wrapping
\* through 0, and every key lies in the interval of exactly one entry.
C4_OwnsIntervalAfterPredecessor ==
    (Called /\ node_ids # <<>> /\ DistinctRing) =>
        /\ \A i \in 1..Len(node_ids) :
               owner = Ok(node_ids[i])
                   <=> InInterval(KeyVal, RingVals[PredPos(i)], RingVals[i])
        /\ Cardinality({i \in 1..Len(node_ids) :
               InInterval(KeyVal, RingVals[PredPos(i)], RingVals[i])}) = 1

\* A key equal to the middle entry of three: the closed end of its interval.
C4_Witness ==
    /\ Called
    /\ Len(node_ids) = 3 /\ DistinctRing
    /\ KeyVal = RingVals[2]
    /\ owner = Ok(node_ids[2])

\* The ring [0x10, 0x50, 0x90] of the scenario.
ScenarioRing == <<Hex2(16), Hex2(80), Hex2(144)>>

\* C5: with the ring [0x10, 0x50, 0x90] the owner of key 0x05 is 0x10, the
\* owner of key 0x95 is 0x10 and the owner of key 0x50 is 0x50.
C5_Scenario ==
    (Called /\ node_ids = ScenarioRing) =>
        /\ key_hex = Hex2(5) => owner = Ok(Hex2(16))
        /\ key_hex = Hex2(149) => owner = Ok(Hex2(16))
        /\ key_hex = Hex2(80) => owner = Ok(Hex2(80))

\* The scenario's wrap-around: key 0x95 on the ring [0x10, 0x50, 0x90].
C5_Witness ==
    /\ Called
    /\ node_ids = ScenarioRing
    /\ key_hex = Hex2(149)
    /\ owner = Ok(Hex2(16))

\* C6: on an empty ring the call fails with a ConfigurationError, for
\* every key.
C6_EmptyRingConfigurationError ==
    (Called /\ node_ids = <<>>) => owner.kind = "ConfigurationError"

-----------------------------------------------------------------------------
(* Properties of get_id_from_string, under SpecDerive *)

Derived == last.fn = "get_id_from_string"

\* A string has a UTF-8 encoding, and so a digest, when it holds no
\* surrogate code point.
Encodable(s) == \A i \in 1..Len(s) : ~(55296 <= s[i] /\ s[i] <= 57343)

\* The digest of the name of the last call.
LastDigest == sha1[Utf8Encode(last.name).val]

\* The number of bits of a Python int: 4 for every hex digit after the
\* first, and the bits of the first.
BitLength(n) ==
    IF n = <<>> THEN 0
    ELSE 4 * (Len(n) - 1)
         + (IF n[1] >= 8 THEN 4 ELSE IF n[1] >= 4 THEN 3 ELSE IF n[1] >= 2 THEN 2 ELSE 1)

\* C7: for ID_BITS in 1..160 and any string with any digest the identifier
\* returned, read as an unsigned integer, is strictly less than 2^ID_BITS
\* (it has at most ID_BITS bits).
C7_BelowTwoToTotalBits ==
    (Derived /\ Encodable(last.name) /\ last.bits \in 1..(8 * DigestLen)) =>
        /\ last.out.kind = "ok"
        /\ IntHex(last.out.val).kind = "ok"
        /\ BitLength(IntHex(last.out.val).val) <= last.bits

\* The default 66 bits and a digest that starts 0xff: the identifier has
\* all of its 66 bits, 0x03 first.
C7_Witness ==
    /\ Derived
    /\ last.bits = DefaultIdBits
    /\ Encodable(last.name)
    /\ LastDigest[1] = 255
    /\ last.out.kind = "ok"
    /\ BitLength(IntHex(last.out.val).val) = DefaultIdBits

\* ceil(b / 8) for b >= 1.
CeilBytes(b) == CHOOSE n \in 1..b : 8 * n >= b /\ 8 * (n - 1) < b

\* Bit i (1 is the most significant) of a sequence of bytes read as one
\* big-endian unsigned integer.
BitOf(bs, i) == (bs[((i - 1) \div 8) + 1] \div (2 ^ (7 - ((i - 1) % 8)))) % 2

\* The reference: the first byteLength bytes of the digest h (all of them
\* when it has fewer), the high-order byteLength*8 - totalBits bits
\* cleared, as hex digit values.
Reference(h, totalBits) ==
    LET byteLength == CeilBytes(totalBits)
        taken      == IF byteLength < Len(h) THEN byteLength ELSE Len(h)
        cleared    == byteLength * 8 - totalBits
        bit(i)     == IF i <= cleared THEN 0 ELSE BitOf(h, i)
    IN  [d \in 1..(2 * taken) |->
            8 * bit(4 * d - 3) + 4 * bit(4 * d - 2) + 2 * bit(4 * d - 1) + bit(4 * d)]

\* The hex digit values of a returned identifier.
DigitsOf(id) == [i \in 1..Len(id) |-> DigitOf(id[i])]

\* The first n bytes of h as hex digit values, nothing cleared.
PrefixDigits(h, n) ==
    [d \in 1..(2 * n) |->
        IF d % 2 = 1 THEN h[(d + 1) \div 2] \div 16 ELSE h[d \div 2] % 16]

\* C8: the identifier is the reference: the first ceil(ID_BITS/8) digest
\* bytes, big-endian, with exactly the high-order BYTE_LEN*8 - ID_BITS bits
\* of the most significant byte cleared and every other bit unchanged; when
\* ID_BITS is a multiple of 8 it is the digest prefix unchanged.
C8_EqualsReference ==
    (Derived /\ Encodable(last.name) /\ last.bits >= 1) =>
        /\ last.out.kind = "ok"
        /\ DigitsOf(last.out.val) = Reference(LastDigest, last.bits)
        /\ (last.bits % 8 = 0 /\ last.bits <= 8 * DigestLen) =>
               DigitsOf(last.out.val) = PrefixDigits(LastDigest, last.bits \div 8)

\* Nine bits of a digest that starts 0xa5 0x02: two bytes are taken and
\* seven bits cleared, which leaves "0102".
C8_Witness ==
    /\ Derived
    /\ last.bits = 9
    /\ Encodable(last.name)
    /\ LastDigest[1] = 165
    /\ last.out = Ok(<<48, 49, 48, 50>>)

\* C9: two calls with the same name under the same ID_BITS return the same
\* identifier, whatever was called or loaded between them and in whichever
\* process run.
C9_Deterministic ==
    (Derived /\ prev.fn = "get_id_from_string"
        /\ prev.name = last.name /\ prev.bits = last.bits) =>
        prev.out = last.out

\* Two calls with the same name under nine bits, the configuration loaded
\* (or the process restarted) between them.
C9_Witness ==
    /\ Derived /\ prev.fn = "get_id_from_string"
    /\ prev.reloaded
    /\ prev.name = last.name
    /\ prev.bits = 9 /\ last.bits = 9
    /\ last.out.kind = "ok"
    /\ prev.out = last.out

-----------------------------------------------------------------------------
(* get_node_ids, verify_routing.py:61-68 *)

\* Faulty variants of sorted(): the list left as it is, and the list with
\* equal entries dropped (sorted(set(ids))).
sorted_not(s) == s

RECURSIVE sorted_set(_)
sorted_set(s) ==
    IF s = <<>> THEN <<>>
    ELSE LET x    == s[Len(s)]
             rest == sorted_set(SubSeq(s, 1, Len(s) - 1))
             k    == Cardinality({j \in 1..Len(rest) : LexLess(rest[j], x)})
         IN  IF \E j \in 1..Len(rest) : rest[j] = x THEN rest
             ELSE SubSeq(rest, 1, k) \o <<x>> \o SubSeq(rest, k + 1, Len(rest))

\* sorted(ids) on a list of str, line 68: ascending by code points, a
\* proper prefix before the longer string, every entry kept.
RECURSIVE sorted(_)
sorted(s) ==
    IF s = <<>> THEN <<>>
    ELSE LET x    == s[Len(s)]
             rest == sorted(SubSeq(s, 1, Len(s) - 1))
             k    == Cardinality({j \in 1..Len(rest) : ~LexLess(x, rest[j])})
         IN  SubSeq(rest, 1, k) \o <<x>> \o SubSeq(rest, k + 1, Len(rest))

\* The for loop of lines 63-66 from index i on: ids grows by one identifier
\* per index below NUM_NODES; an exception of get_id_from_string ends it.
RECURSIVE DerivedIds(_, _)
DerivedIds(ids, i) ==
    IF i >= NUM_NODES THEN Ok(ids)
    ELSE LET hex_id == get_id_from_string(NodeName(i))
         IN  IF hex_id.kind # "ok" THEN hex_id
             ELSE DerivedIds(Append(ids, hex_id.val), i + 1)

get_node_ids ==
    LET ids == DerivedIds(<<>>, 0)
    IN  IF ids.kind # "ok" THEN ids ELSE Ok(sorted(ids.val))

-----------------------------------------------------------------------------
(* The header of the response, verify_routing.py:124-127 *)

\* s.replace("0x", ""): every occurrence, left to right, not overlapping.
RECURSIVE Replace0x(_)
Replace0x(s) ==
    IF Len(s) < 2 THEN s
    ELSE IF s[1] = 48 /\ s[2] = 120 THEN Replace0x(SubSeq(s, 3, Len(s)))
    ELSE <<s[1]>> \o Replace0x(Tail(s))

\* s.zfill(width): "0" on the left up to width characters, after a leading
\* sign; a string of width characters or more is returned as it is.
zfill(s, width) ==
    IF Len(s) >= width THEN s
    ELSE LET zeros == [i \in 1..(width - Len(s)) |-> 48]
         IN  IF s # <<>> /\ s[1] \in {43, 45}
             THEN <<s[1]>> \o zeros \o Tail(s)
             ELSE zeros \o s

\* Faulty variant: the header compared as it came.
NormalizeVerbatim(header) == header

\* Lines 124 and 127 on the value headers.get("X-Node-ID", "") gave.
Normalize(header) == zfill(Replace0x(header), BYTE_LEN * 2)

-----------------------------------------------------------------------------
(* The urls of test_routing, verify_routing.py:92-101 *)

UrlList == <<
    \* https://httpbin.org/get
    <<104, 116, 116, 112, 115, 58, 47, 47, 104, 116, 116, 112, 98, 105,
      110, 46, 111, 114, 103, 47, 103, 101, 116>>,
    \* https://www.gstatic.com/generate_204
    <<104, 116, 116, 112, 115, 58, 47, 47, 119, 119, 119, 46, 103, 115,
      116, 97, 116, 105, 99, 46, 99, 111, 109, 47, 103, 101, 110, 101, 114,
      97, 116, 101, 95, 50, 48, 52>>,
    \* https://www.google.com/robots.txt
    <<104, 116, 116, 112, 115, 58, 47, 47, 119, 119, 119, 46, 103, 111,
      111, 103, 108, 101, 46, 99, 111, 109, 47, 114, 111, 98, 111, 116,
      115, 46, 116, 120, 116>>,
    \* https://example.org
    <<104, 116, 116, 112, 115, 58, 47, 47, 101, 120, 97, 109, 112, 108,
      101, 46, 111, 114, 103>>,
    \* https://neverssl.com
    <<104, 116, 116, 112, 115, 58, 47, 47, 110, 101, 118, 101, 114, 115,
      115, 108, 46, 99, 111, 109>>,
    \* https://httpbin.org/uuid
    <<104, 116, 116, 112, 115, 58, 47, 47, 104, 116, 116, 112, 98, 105,
      110, 46, 111, 114, 103, 47, 117, 117, 105, 100>>,
    \* https://httpbin.org/html
    <<104, 116, 116, 112, 115, 58, 47, 47, 104, 116, 116, 112, 98, 105,
      110, 46, 111, 114, 103, 47, 104, 116, 109, 108>>,
    \* https://www.wikipedia.org/
    <<104, 116, 116, 112, 115, 58, 47, 47, 119, 119, 119, 46, 119, 105,
      107, 105, 112, 101, 100, 105, 97, 46, 111, 114, 103, 47>>
    >>

\* How many of the urls a run takes, from the first on.
MaxUrls == 2

urls == SubSeq(UrlList, 1, MaxUrls)

-----------------------------------------------------------------------------
(* Inputs of a run of test_routing *)

\* The messages a run hashes: the names of nodes 0..7 and the urls.
RunMessages ==
    {Utf8Encode(NodeName(j)).val : j \in 0..(DefaultNumNodes - 1)}
    \cup {Utf8Encode(UrlList[k]).val : k \in 1..Len(UrlList)}

\* First digest bytes of the node names 0..7 and of the urls, per table.
\* Table 1: with three nodes and 8 bits the ring is 0x10, 0x50, 0x90 derived
\* out of order, the first key is below it and the second above it.
\* Table 2: nodes 0 and 1 collide when one byte is kept, and the first key
\* is their identifier.
NodeFirst == << <<144, 16, 80, 192, 48, 240, 112, 160>>,
                <<16, 16, 255, 1, 2, 3, 4, 5>> >>

UrlFirst == << <<4, 149, 80, 255, 16, 96, 0, 192>>,
               <<16, 0, 17, 255, 1, 2, 3, 4>> >>

\* SHA-1 table t; the tails make the digests of distinct messages distinct
\* and put the node names out of order whatever number of bytes is kept.
RunSha1(t) ==
    [m \in RunMessages |->
        IF \E j \in 0..(DefaultNumNodes - 1) : Utf8Encode(NodeName(j)).val = m
        THEN LET j == CHOOSE i \in 0..(DefaultNumNodes - 1) :
                          Utf8Encode(NodeName(i)).val = m
             IN  Digest(NodeFirst[t][j + 1], 16 * ((5 * j + 3) % 8))
        ELSE LET k == CHOOSE i \in 1..Len(UrlList) : Utf8Encode(UrlList[i]).val = m
             IN  Digest(UrlFirst[t][k], 16 * k + 8)]

RunTables == {RunSha1(1), RunSha1(2)}

\* Configuration inputs of a run: none, an unreadable file, three nodes
\* with 8 bits and with 161 bits, and the values that are not positive or
\* not integers.
RunConfigs ==
    {NoConfig, Unreadable,
     JsonConfig(IntField(3), IntField(8)),
     JsonConfig(IntField(3), IntField(161)),
     JsonConfig(IntField(0), Missing),
     JsonConfig(IntField(3), IntField(0)),
     JsonConfig(IntField(3), IntField(-1)),
     JsonConfig(IntField(3), IntField(-8)),
     JsonConfig(IntField(3), BadField)}

\* What the collaborator answers: a response with a status and maybe the
\* X-Node-ID header, or requests.get raising.
Response(status, has_header, header) ==
    [kind |-> "response", status |-> status, has_header |-> has_header,
     header |-> header]

Failure == [kind |-> "exception", status |-> 0, has_header |-> FALSE, header |-> <<>>]

\* The identifier e written as "0x" and its digits without the leading "0"s.
RECURSIVE StripZeroChars(_)
StripZeroChars(e) ==
    IF Len(e) <= 1 \/ e[1] # 48 THEN e ELSE StripZeroChars(Tail(e))

Unpadded(e) == <<48, 120>> \o StripZeroChars(e)

\* e with A-F for a-f.
Upper(e) == [i \in 1..Len(e) |-> IF e[i] >= 97 /\ e[i] <= 102 THEN e[i] - 32 ELSE e[i]]

\* An identifier that is not e: another one of the ring when there is one.
Other(e, ring) ==
    IF \E i \in 1..Len(ring) : ring[i] # e
    THEN ring[CHOOSE i \in 1..Len(ring) : ring[i] # e]
    ELSE e \o <<49>>

\* The answers to the request for a key whose predicted owner is e: status
\* 200 with the owner as the code writes it, with "0x" and unpadded, in
\* upper case, with another node, with "zz", and without the header; status
\* 500; and an exception.
Responses(e, ring) ==
    {Response(200, TRUE, h) :
        h \in {e, Unpadded(e), Upper(e), Other(e, ring), <<122, 122>>}}
    \cup {Response(200, FALSE, <<>>), Response(500, TRUE, e), Failure}

-----------------------------------------------------------------------------
(* test_routing, verify_routing.py:82-144 *)

\* A printed line: what it is, and the string and the numbers formatted
\* into it.
Line(tag, str, n, m) == [tag |-> tag, s |-> str, n |-> n, m |-> m]

\* Lines 106-108.
Banner == <<Line("rule", <<>>, 0, 0), Line("title", <<>>, 0, 0), Line("rule", <<>>, 0, 0)>>

\* Faulty variant: no continue after the status line, the header of a
\* response that is not a 200 is compared and counted.
TryBodyNoContinue(r, expected_node) ==
    IF r.kind = "exception"
    THEN [lines |-> <<Line("exception", <<>>, 0, 0)>>, verdict |-> "exception",
          actual |-> <<>>, matched |-> 0, counted |-> 0]
    ELSE LET actual_node == Normalize(IF r.has_header THEN r.header ELSE <<>>)
             status == IF r.status # 200
                       THEN <<Line("status", <<>>, r.status, 0)>> ELSE <<>>
         IN  IF actual_node = expected_node
             THEN [lines |-> status \o <<Line("actual", actual_node, 0, 0),
                                   Line("MATCH", <<>>, 0, 0)>>,
                   verdict |-> "MATCH", actual |-> actual_node,
                   matched |-> 1, counted |-> 1]
             ELSE [lines |-> status \o <<Line("actual", actual_node, 0, 0),
                                   Line("MISMATCH", <<>>, 0, 0)>>,
                   verdict |-> "MISMATCH", actual |-> actual_node,
                   matched |-> 0, counted |-> 1]

\* Faulty variant: actual_node is a variable that outlives the iteration,
\* and a response without the header leaves in it the node of the key
\* before.
TryBodySticky(r, expected_node) ==
    IF r.kind = "exception"
    THEN [lines |-> <<Line("exception", <<>>, 0, 0)>>, verdict |-> "exception",
          actual |-> <<>>, matched |-> 0, counted |-> 0]
    ELSE IF r.status # 200
    THEN [lines |-> <<Line("status", <<>>, r.status, 0)>>, verdict |-> "status",
          actual |-> <<>>, matched |-> 0, counted |-> 0]
    ELSE LET actual_node == IF r.has_header THEN Normalize(r.header)
                            ELSE IF results = <<>> THEN Normalize(<<>>)
                            ELSE results[Len(results)].actual
         IN  IF actual_node = expected_node
             THEN [lines |-> <<Line("actual", actual_node, 0, 0),
                               Line("MATCH", <<>>, 0, 0)>>,
                   verdict |-> "MATCH", actual |-> actual_node,
                   matched |-> 1, counted |-> 1]
             ELSE [lines |-> <<Line("actual", actual_node, 0, 0),
                               Line("MISMATCH", <<>>, 0, 0)>>,
                   verdict |-> "MISMATCH", actual |-> actual_node,
                   matched |-> 0, counted |-> 1]

\* Faulty variant: match_count grows on a mismatch as well (line 133 moved
\* after the if statement).
TryBodyCountAll(r, expected_node) ==
    IF r.kind = "exception"
    THEN [lines |-> <<Line("exception", <<>>, 0, 0)>>, verdict |-> "exception",
          actual |-> <<>>, matched |-> 0, counted |-> 0]
    ELSE IF r.status # 200
    THEN [lines |-> <<Line("status", <<>>, r.status, 0)>>, verdict |-> "status",
          actual |-> <<>>, matched |-> 0, counted |-> 0]
    ELSE LET actual_node == Normalize(IF r.has_header THEN r.header ELSE <<>>)
         IN  IF actual_node = expected_node
             THEN [lines |-> <<Line("actual", actual_node, 0, 0),
                               Line("MATCH", <<>>, 0, 0)>>,
                   verdict |-> "MATCH", actual |-> actual_node,
                   matched |-> 1, counted |-> 1]
             ELSE [lines |-> <<Line("actual", actual_node, 0, 0),
                               Line("MISMATCH", <<>>, 0, 0)>>,
                   verdict |-> "MISMATCH", actual |-> actual_node,
                   matched |-> 1, counted |-> 1]

\* The try statement of lines 118-140 on the answer r: the lines printed,
\* what was decided, and what is added to match_count and total_count.
TryBody(r, expected_node) ==
    IF r.kind = "exception"
    THEN [lines |-> <<Line("exception", <<>>, 0, 0)>>, verdict |-> "exception",
          actual |-> <<>>, matched |-> 0, counted |-> 0]
    ELSE IF r.status # 200
    THEN [lines |-> <<Line("status", <<>>, r.status, 0)>>, verdict |-> "status",
          actual |-> <<>>, matched |-> 0, counted |-> 0]
    ELSE LET actual_node == Normalize(IF r.has_header THEN r.header ELSE <<>>)
         IN  IF actual_node = expected_node
             THEN [lines |-> <<Line("actual", actual_node, 0, 0),
                               Line("MATCH", <<>>, 0, 0)>>,
                   verdict |-> "MATCH", actual |-> actual_node,
                   matched |-> 1, counted |-> 1]
             ELSE [lines |-> <<Line("actual", actual_node, 0, 0),
                               Line("MISMATCH", <<>>, 0, 0)>>,
                   verdict |-> "MISMATCH", actual |-> actual_node,
                   matched |-> 0, counted |-> 1]

\* An exception nothing catches ends test_routing.
Crash(e) ==
    /\ pc' = "crashed"
    /\ crash' = e

\* Line 84: load_config(); line 35 prints a warning for an unreadable file.
RunLoadConfig ==
    /\ pc = "start"
    /\ LET r == load_config(cfg)
       IN  /\ NUM_NODES' = r.g.NUM_NODES
           /\ ID_BITS' = r.g.ID_BITS
           /\ BYTE_LEN' = r.g.BYTE_LEN
           /\ out' = IF cfg.state = "unreadable"
                     THEN Append(out, Line("warning", <<>>, 0, 0)) ELSE out
           /\ IF r.out.kind = "ok"
              THEN pc' = "ring" /\ crash' = crash
              ELSE Crash(r.out.kind)
    /\ UNCHANGED <<sha1, stats, cfg, last, prev, key_hex, node_ids, owner, idx,
                   match_count, total_count, reqs, results, run, firstRun,
                   order>>

\* Faulty variant: the counters are not set to 0 (lines 103-104 left out).
BuildRingKeepCounts ==
    /\ pc = "ring"
    /\ LET r == get_node_ids
       IN  IF r.kind # "ok"
           THEN /\ Crash(r.kind)
                /\ UNCHANGED <<node_ids, out>>
           ELSE /\ node_ids' = r.val
                /\ out' = out \o <<Line("distribution", <<>>, 0, 0)>>
                              \o [i \in 1..Len(r.val) |-> Line("node", r.val[i], i - 1, 0)]
                              \o <<Line("total", <<>>, Len(r.val), 0)>>
                              \o Banner
                /\ pc' = "loop"
                /\ crash' = crash
    /\ UNCHANGED <<globals, sha1, stats, cfg, last, prev, key_hex, owner, idx,
                   match_count, total_count, reqs, results, run, firstRun,
                   order>>

\* Lines 86-108: the ring, its listing, the counters and the banner.
BuildRing ==
    /\ pc = "ring"
    /\ LET r == get_node_ids
       IN  IF r.kind # "ok"
           THEN /\ Crash(r.kind)
                /\ UNCHANGED <<node_ids, out, match_count, total_count>>
           ELSE /\ node_ids' = r.val
                /\ out' = out \o <<Line("distribution", <<>>, 0, 0)>>
                              \o [i \in 1..Len(r.val) |-> Line("node", r.val[i], i - 1, 0)]
                              \o <<Line("total", <<>>, Len(r.val), 0)>>
                              \o Banner
                /\ match_count' = 0
                /\ total_count' = 0
                /\ pc' = "loop"
                /\ crash' = crash
    /\ UNCHANGED <<globals, sha1, stats, cfg, last, prev, key_hex, owner, idx,
                   reqs, results, run, firstRun,
                   order>>

\* Faulty variant: the lookup changes the ring in place, moving its first
\* entry to the end.
PredictRotating ==
    /\ pc = "loop"
    /\ idx < Len(urls)
    /\ idx' = idx + 1
    /\ node_ids' = IF node_ids = <<>> THEN node_ids
                   ELSE Tail(node_ids) \o <<Head(node_ids)>>
    /\ LET url == urls[order[idx + 1]]
           k   == get_id_from_string(url)
           e   == get_responsible_node(k.val, node_ids)
       IN  IF k.kind # "ok"
           THEN Crash(k.kind) /\ UNCHANGED <<key_hex, owner, out>>
           ELSE /\ key_hex' = k.val
                /\ owner' = e
                /\ IF e.kind # "ok"
                   THEN Crash(e.kind) /\ out' = out
                   ELSE /\ out' = out \o <<Line("url", url, 0, 0),
                                           Line("key", k.val, 0, 0),
                                           Line("expected", e.val, 0, 0)>>
                        /\ pc' = "request"
                        /\ crash' = crash
    /\ UNCHANGED <<globals, sha1, stats, cfg, last, prev, match_count,
                   total_count, reqs, results, run, firstRun, order>>

\* Lines 110-116: the loop takes the next url, derives its key and predicts
\* its owner, and prints the three.
Predict ==
    /\ pc = "loop"
    /\ idx < Len(urls)
    /\ idx' = idx + 1
    /\ LET url == urls[order[idx + 1]]
           k   == get_id_from_string(url)
           e   == get_responsible_node(k.val, node_ids)
       IN  IF k.kind # "ok"
           THEN Crash(k.kind) /\ UNCHANGED <<key_hex, owner, out>>
           ELSE /\ key_hex' = k.val
                /\ owner' = e
                /\ IF e.kind # "ok"
                   THEN Crash(e.kind) /\ out' = out
                   ELSE /\ out' = out \o <<Line("url", url, 0, 0),
                                           Line("key", k.val, 0, 0),
                                           Line("expected", e.val, 0, 0)>>
                        /\ pc' = "request"
                        /\ crash' = crash
    /\ UNCHANGED <<globals, sha1, stats, cfg, last, prev, node_ids, match_count,
                   total_count, reqs, results, run, firstRun,
                   order>>

\* Faulty variant: the request is sent again at once.
SendRequestTwice ==
    /\ pc = "request"
    /\ reqs' = reqs \o <<urls[order[idx]], urls[order[idx]]>>
    /\ pc' = "wait"
    /\ UNCHANGED <<globals, sha1, stats, cfg, last, prev, key_hex, node_ids, owner,
                   idx, match_count, total_count, out, results, crash, run,
                   firstRun,
                   order>>

\* Line 119: requests.get is called for the url.
SendRequest ==
    /\ pc = "request"
    /\ reqs' = Append(reqs, urls[order[idx]])
    /\ pc' = "wait"
    /\ UNCHANGED <<globals, sha1, stats, cfg, last, prev, key_hex, node_ids, owner,
                   idx, match_count, total_count, out, results, crash, run,
                   firstRun,
                   order>>

\* Faulty variant: no except clause, an exception of requests.get ends
\* test_routing.
ReceiveUncaught(r) ==
    /\ pc = "wait"
    /\ LET b == TryBody(r, owner.val)
       IN  /\ out' = IF r.kind = "exception" THEN out ELSE out \o b.lines
           /\ match_count' = match_count + b.matched
           /\ total_count' = total_count + b.counted
           /\ results' = Append(results,
                  [url |-> urls[order[idx]], key |-> key_hex, expected |-> owner.val,
                   resp |-> r, actual |-> b.actual, verdict |-> b.verdict])
    /\ IF r.kind = "exception"
       THEN pc' = "crashed" /\ crash' = "ConnectionError"
       ELSE pc' = "loop" /\ crash' = crash
    /\ UNCHANGED <<globals, sha1, stats, cfg, last, prev, key_hex, node_ids, owner,
                   idx, reqs, run, firstRun,
                   order>>

\* Lines 119-140: requests.get returns r or raises, and the rest of the try
\* statement runs; the loop goes on to the next url.
Receive(r) ==
    /\ pc = "wait"
    /\ LET b == TryBody(r, owner.val)
       IN  /\ out' = out \o b.lines
           /\ match_count' = match_count + b.matched
           /\ total_count' = total_count + b.counted
           /\ results' = Append(results,
                  [url |-> urls[order[idx]], key |-> key_hex, expected |-> owner.val,
                   resp |-> r, actual |-> b.actual, verdict |-> b.verdict])
    /\ pc' = "loop"
    /\ UNCHANGED <<globals, sha1, stats, cfg, last, prev, key_hex, node_ids, owner,
                   idx, reqs, crash, run, firstRun,
                   order>>

\* Lines 142-144, after the last url.
Summary ==
    /\ pc = "loop"
    /\ idx >= Len(urls)
    /\ out' = out \o <<Line("rule", <<>>, 0, 0),
                       Line("summary", <<>>, match_count, total_count),
                       Line("rule", <<>>, 0, 0)>>
    /\ pc' = "done"
    /\ UNCHANGED <<globals, sha1, stats, cfg, last, prev, key_hex, node_ids, owner,
                   idx, match_count, total_count, reqs, results, crash, run,
                   firstRun,
                   order>>

\* The urls in the order of the list of lines 92-101.
ListOrder == [i \in 1..Len(urls) |-> i]

\* test_routing() is called a second time in the same process, with the
\* same configuration file and the urls taken in the order o; the
\* collaborator will answer each url as it did.
CallAgainWith(o) ==
    /\ pc = "done"
    /\ run = 1
    /\ firstRun' = [results |-> results, match_count |-> match_count,
                    total_count |-> total_count, over |-> TRUE]
    /\ run' = 2
    /\ order' = o
    /\ pc' = "start"
    /\ idx' = 0
    /\ out' = <<>>
    /\ reqs' = <<>>
    /\ results' = <<>>
    /\ UNCHANGED <<globals, sha1, stats, cfg, last, prev, key_hex, node_ids, owner,
                   match_count, total_count, crash>>

\* The second call of the program as it is: the order is that of the list.
CallAgain == CallAgainWith(order)

\* The answer the first call got for the url u.
FirstAnswer(u) ==
    firstRun.results[CHOOSE i \in 1..Len(firstRun.results) :
                         firstRun.results[i].url = u].resp

\* The answers the collaborator may give to the request in flight.
Answers ==
    IF pc # "wait" THEN {}
    ELSE IF run = 1 THEN Responses(owner.val, node_ids)
    ELSE {FirstAnswer(urls[order[idx]])}

\* A run of test_routing in a fresh process, and a second call after it.
InitRun ==
    /\ NUM_NODES = DefaultNumNodes
    /\ ID_BITS = DefaultIdBits
    /\ BYTE_LEN = ByteLenOf(DefaultIdBits)
    /\ cfg \in RunConfigs
    /\ sha1 \in RunTables
    /\ last = NoApiCall
    /\ prev = NoApiCall
    /\ key_hex = <<>>
    /\ node_ids = <<>>
    /\ owner = NoCall
    /\ pc = "start"
    /\ idx = 0
    /\ match_count = 0
    /\ total_count = 0
    /\ out = <<>>
    /\ reqs = <<>>
    /\ results = <<>>
    /\ crash = ""
    /\ run = 1
    /\ firstRun = NoRun
    /\ order = ListOrder
    /\ stats = NoStats

NextRun ==
    \/ RunLoadConfig
    \/ BuildRing
    \/ Predict
    \/ SendRequest
    \/ \E r \in Answers : Receive(r)
    \/ Summary
    \/ CallAgain

SpecRun == InitRun /\ [][NextRun]_vars

\* test_routing moves on: every step of it but the second call changes pc,
\* and one is possible wherever pc is one of these five.
Advance ==
    /\ pc \in {"start", "ring", "loop", "request", "wait"}
    /\ pc' \in {"ring", "loop", "request", "wait", "done", "crashed"}
    /\ pc' # pc

\* The interpreter goes on to the next statement, and every request is
\* answered or raises.
FairRun == SpecRun /\ WF_pc(Advance)

-----------------------------------------------------------------------------
(* Properties of get_node_ids, under SpecRun *)

\* get_node_ids has just returned the ring to test_routing, which listed it
\* and stands before the first url.
RingListed == pc = "loop" /\ idx = 0

\* The identifiers derived for the node indices 0..NUM_NODES-1, in the order
\* of the indices, under the configuration in force.
DerivedList == DerivedIds(<<>>, 0).val

PairwiseDistinct(s) == \A i, j \in 1..Len(s) : i # j => s[i] # s[j]

\* a < b on two strings of hex digits read as unsigned integers.
IntLess(a, b) ==
    /\ IntHex(a).kind = "ok"
    /\ IntHex(b).kind = "ok"
    /\ ~IntGe(IntHex(a).val, IntHex(b).val)

\* How many times x occurs in s.
Count(x, s) == Cardinality({i \in 1..Len(s) : s[i] = x})

\* C11: when the identifiers derived for the indices 0..NUM_NODES-1 are
\* pairwise distinct, the ring get_node_ids returned has exactly NUM_NODES
\* entries, strictly ascending as unsigned integers, and its entries are
\* exactly those identifiers.
C11_DistinctRingStrictlyAscending ==
    RingListed =>
        LET d == DerivedList
        IN  PairwiseDistinct(d) =>
                /\ Len(node_ids) = NUM_NODES
                /\ \A i \in 1..(Len(node_ids) - 1) :
                       IntLess(node_ids[i], node_ids[i + 1])
                /\ {node_ids[i] : i \in 1..Len(node_ids)}
                       = {d[i] : i \in 1..Len(d)}

\* Three or more distinct identifiers, derived in an order that is not
\* ascending, have been built into the ring.
C11_Witness ==
    /\ RingListed
    /\ NUM_NODES >= 3
    /\ PairwiseDistinct(DerivedList)
    /\ \E i \in 1..(Len(DerivedList) - 1) :
           IntLess(DerivedList[i + 1], DerivedList[i])

\* C12: a collision of two node indices is not an error: whenever the
\* derivation of the identifiers succeeds get_node_ids returns a ring; the
\* ring is non-decreasing and holds every derived identifier as many times
\* as it was derived; without a collision its length is NUM_NODES.
C12_CollisionsKept ==
    /\ pc = "ring" =>
           (DerivedIds(<<>>, 0).kind = "ok" => get_node_ids.kind = "ok")
    /\ RingListed =>
        LET d == DerivedList
        IN  /\ \A i \in 1..(Len(node_ids) - 1) :
                   \/ node_ids[i] = node_ids[i + 1]
                   \/ IntLess(node_ids[i], node_ids[i + 1])
            /\ \A x \in {d[i] : i \in 1..Len(d)} :
                   Count(x, node_ids) = Count(x, d)
            /\ Len(node_ids) = Len(d)
            /\ PairwiseDistinct(d) => Len(node_ids) = NUM_NODES

\* Two node indices derived the same identifier while a third derived
\* another one, and the ring was built.
C12_Witness ==
    /\ RingListed
    /\ ~PairwiseDistinct(DerivedList)
    /\ \E i, j \in 1..Len(DerivedList) : DerivedList[i] # DerivedList[j]
    /\ Len(node_ids) = NUM_NODES

-----------------------------------------------------------------------------
(* Properties of the per-key outcomes of test_routing, under SpecRun *)

\* The counters hold the counts of the call under way.
Counting == pc \in {"loop", "request", "wait", "done"}

\* The answer was a response with status 200.
Is200(r) == r.kind = "response" /\ r.status = 200

\* The keys whose answer was a 200 response, by position in results.
Verified == {i \in 1..Len(results) : Is200(results[i].resp)}

\* C13: a key answered with a status other than 200, or whose request
\* raised, is reported as a failed request, never as a match or a mismatch,
\* and adds to neither counter: match_count and total_count are what the
\* other keys, those answered with a 200, contribute.
C13_FailedRequestNotCounted ==
    /\ \A i \in 1..Len(results) :
           ~Is200(results[i].resp) =>
               results[i].verdict = (IF results[i].resp.kind = "exception"
                                     THEN "exception" ELSE "status")
    /\ Counting =>
           /\ total_count = Cardinality(Verified)
           /\ match_count =
                  Cardinality({i \in Verified :
                      Normalize(IF results[i].resp.has_header
                                THEN results[i].resp.header ELSE <<>>)
                          = results[i].expected})

\* A call is over in which one key was answered with status 500, carrying
\* the header of the expected node, and another key was verified as a match.
C13_Witness ==
    /\ pc = "done"
    /\ \E i, j \in 1..Len(results) :
           /\ results[i].resp.kind = "response"
           /\ results[i].resp.status = 500
           /\ results[i].resp.header = results[i].expected
           /\ results[j].verdict = "MATCH"
    /\ match_count = 1
    /\ total_count = 1

\* The X-Node-ID header is absent, or is not a string of hex digits after
\* an optional "0x".
NoUsableHeader(r) ==
    \/ ~r.has_header
    \/ LET h == IF Len(r.header) >= 2 /\ SubSeq(r.header, 1, 2) = <<48, 120>>
                THEN SubSeq(r.header, 3, Len(r.header)) ELSE r.header
       IN  IntHex(h).kind # "ok"

\* C14: a key whose 200 response has no X-Node-ID header, or a malformed
\* one, is recorded as unverifiable: neither a match nor a mismatch, and
\* not counted in total_count.
C14_MissingHeaderUnverifiable ==
    /\ \A i \in 1..Len(results) :
           (Is200(results[i].resp) /\ NoUsableHeader(results[i].resp)) =>
               results[i].verdict \notin {"MATCH", "MISMATCH"}
    /\ Counting =>
           total_count =
               Cardinality({i \in Verified : ~NoUsableHeader(results[i].resp)})

-----------------------------------------------------------------------------
(* Properties of the whole run of test_routing, under FairRun *)

\* test_routing is about to load a configuration that leaves NUM_NODES >= 1
\* and ID_BITS >= 1.
ValidStart ==
    /\ pc = "start"
    /\ load_config(cfg).out.kind = "ok"
    /\ load_config(cfg).g.NUM_NODES >= 1
    /\ load_config(cfg).g.ID_BITS >= 1

\* Every url was taken in turn and the summary was printed.
Completed ==
    /\ pc = "done"
    /\ Len(results) = Len(urls)
    /\ \A i \in 1..Len(urls) : results[i].url = urls[i]
    /\ Len(out) >= 2
    /\ out[Len(out) - 1] = Line("summary", <<>>, match_count, total_count)

\* C15: with a valid configuration, whatever the answers to the requests
\* (200 and match, 200 and mismatch, another status, an exception), every
\* url is taken in turn and the summary is printed; no answer ends the
\* batch early.
C15_BatchAlwaysCompletes == ValidStart ~> Completed

\* The summary 0/0 was printed after every url was taken and none was
\* verified, one for a status that is not 200 and one for an exception.
C15_Witness ==
    /\ Completed
    /\ total_count = 0
    /\ match_count = 0
    /\ \E i \in 1..Len(results) : results[i].verdict = "exception"
    /\ \E i \in 1..Len(results) : results[i].verdict = "status"

-----------------------------------------------------------------------------
(* Properties of the configuration and of the header, under SpecRun *)

\* load_config has run and left a value that is not positive.
InvalidNumbers == pc # "start" /\ (NUM_NODES <= 0 \/ ID_BITS <= 0)

\* C16: with NUM_NODES <= 0 or ID_BITS <= 0 the run aborts before any
\* comparison: no request is issued, no key is counted, and the run does
\* not get to its summary.
C16_InvalidNumbersAbort ==
    InvalidNumbers =>
        /\ reqs = <<>>
        /\ results = <<>>
        /\ pc # "done"

\* C17: a run that ends in an error under NUM_NODES <= 0 or ID_BITS <= 0
\* has printed nothing: no node listing, no per-key line, no summary.
C17_NoPartialOutput ==
    (InvalidNumbers /\ pc = "crashed") => out = <<>>

\* The header of r without its optional "0x".
Digits(r) ==
    IF Len(r.header) >= 2 /\ SubSeq(r.header, 1, 2) = <<48, 120>>
    THEN SubSeq(r.header, 3, Len(r.header)) ELSE r.header

\* C18: under a configuration with NUM_NODES >= 1 and ID_BITS >= 1, a key
\* whose 200 response carries a hex string as X-Node-ID, with or without
\* "0x" and with or without leading zeros, is reported as a match when the
\* header denotes the identifier of the expected node, and as a mismatch
\* when it denotes another one.
C18_HeaderComparedByValue ==
    (NUM_NODES >= 1 /\ ID_BITS >= 1) =>
        \A i \in 1..Len(results) :
            LET r == results[i].resp
            IN  (Is200(r) /\ ~NoUsableHeader(r)) =>
                    results[i].verdict =
                        (IF IntHex(Digits(r)).val = IntHex(results[i].expected).val
                         THEN "MATCH" ELSE "MISMATCH")

-----------------------------------------------------------------------------
(* Properties of the requests and of a second call, under SpecRun *)

\* load_config has run and left NUM_NODES >= 1 and ID_BITS >= 1.
ValidNumbers == pc # "start" /\ NUM_NODES >= 1 /\ ID_BITS >= 1

\* C19: under a valid configuration the requests issued are the urls of
\* the list, one each and in order; a request is issued only when the
\* outcome of the one before it is recorded; a run that is over has
\* requested every url exactly once.
C19_OneRequestPerKeyInOrder ==
    ValidNumbers =>
        /\ Len(reqs) <= Len(urls)
        /\ \A i \in 1..Len(reqs) : reqs[i] = urls[i]
        /\ Len(reqs) = Len(results) + (IF pc = "wait" THEN 1 ELSE 0)
        /\ \A i \in 1..Len(results) : results[i].url = reqs[i]
        /\ pc = "done" => Len(reqs) = Len(urls)

\* A run under a valid configuration is over; one of its requests raised
\* and another was answered with a status that is not 200.
C19_Witness ==
    /\ ValidNumbers
    /\ pc = "done"
    /\ Len(reqs) >= 2
    /\ \E i \in 1..Len(results) : results[i].resp.kind = "exception"
    /\ \E i \in 1..Len(results) :
           results[i].resp.kind = "response" /\ results[i].resp.status # 200

\* C20: a second call of test_routing, with the configuration unchanged
\* and every request answered as in the first call, gives for every key
\* the same key identifier, expected node, actual node and verdict, and the
\* same match_count and total_count.
C20_SecondCallSameResults ==
    run = 2 =>
        /\ \A i \in 1..Len(results) : results[i] = firstRun.results[i]
        /\ pc = "done" =>
               /\ results = firstRun.results
               /\ match_count = firstRun.match_count
               /\ total_count = firstRun.total_count

\* A second call is over; its first call counted two keys, one of them a
\* match.
C20_Witness ==
    /\ run = 2
    /\ pc = "done"
    /\ firstRun.over
    /\ firstRun.total_count = 2
    /\ firstRun.match_count = 1

-----------------------------------------------------------------------------
(* Properties of load_config and of BYTE_LEN, under SpecDerive *)

\* The step is a call of load_config.
LoadStep == last'.fn = "load_config"

\* Every field the input holds is an integer.
IntegerFields(c) == c.NUM_NODES.tag # "bad" /\ c.ID_BITS.tag # "bad"

\* C21: a call of load_config whose input holds integers leaves in each of
\* NUM_NODES and ID_BITS the value of the field of that name when the input
\* is a readable file that holds the field, and otherwise the value the
\* global had, which in a newly loaded module is the default 8 or 66; an
\* absent or unreadable input is no error and changes none of NUM_NODES,
\* ID_BITS and BYTE_LEN.
C21_FieldsOrDefaults ==
    [][(LoadStep /\ IntegerFields(cfg')) =>
          /\ last'.out.kind = "ok"
          /\ cfg'.state # "json" => globals' = globals
          /\ NUM_NODES' = (IF cfg'.state = "json" /\ cfg'.NUM_NODES.tag = "int"
                           THEN cfg'.NUM_NODES.val ELSE NUM_NODES)
          /\ ID_BITS' = (IF cfg'.state = "json" /\ cfg'.ID_BITS.tag = "int"
                         THEN cfg'.ID_BITS.val ELSE ID_BITS)
          /\ ModuleLoaded =>
                 /\ NUM_NODES' = (IF cfg'.state = "json" /\ cfg'.NUM_NODES.tag = "int"
                                  THEN cfg'.NUM_NODES.val ELSE 8)
                 /\ ID_BITS' = (IF cfg'.state = "json" /\ cfg'.ID_BITS.tag = "int"
                                THEN cfg'.ID_BITS.val ELSE 66)
                 /\ cfg'.state # "json" => BYTE_LEN' = 9]_vars

\* load_config has read a file that holds ID_BITS and not NUM_NODES: ID_BITS
\* is the value of the file and NUM_NODES the default.
C21_Witness ==
    /\ last.fn = "load_config"
    /\ last.out.kind = "ok"
    /\ cfg.state = "json"
    /\ cfg.NUM_NODES.tag = "missing"
    /\ cfg.ID_BITS.tag = "int"
    /\ ID_BITS = cfg.ID_BITS.val
    /\ ID_BITS # DefaultIdBits
    /\ NUM_NODES = DefaultNumNodes

\* C22: at module load and after every outcome of load_config, whatever
\* ID_BITS is, BYTE_LEN is ceil(ID_BITS / 8): BYTE_LEN * 8 >= ID_BITS and
\* BYTE_LEN * 8 - ID_BITS < 8.
C22_ByteLenIsCeiling ==
    /\ BYTE_LEN * 8 >= ID_BITS
    /\ BYTE_LEN * 8 - ID_BITS < 8

\* load_config has assigned an ID_BITS that is not a multiple of 8 and is
\* not the default, and BYTE_LEN was computed again.
C22_Witness ==
    /\ last.fn = "load_config"
    /\ ID_BITS = 9
    /\ BYTE_LEN = 2

-----------------------------------------------------------------------------
(* test_routing with a collaborator that may stay silent *)

\* The collaborator accepts the request and never answers it. Line 119
\* passes no timeout to requests.get, which then never returns: nothing
\* follows.
Silence ==
    /\ pc = "wait"
    /\ pc' = "blocked"
    /\ UNCHANGED <<globals, sha1, stats, cfg, last, prev, key_hex, node_ids, owner,
                   idx, match_count, total_count, out, reqs, results, crash,
                   run, firstRun,
                   order>>

NextSilent ==
    \/ NextRun
    \/ Silence

SpecSilent == InitRun /\ [][NextSilent]_vars

\* test_routing moves on wherever it can: a request in flight is answered,
\* raises, or is known never to be answered.
AdvanceSilent ==
    /\ pc \in {"start", "ring", "loop", "request", "wait"}
    /\ pc' \in {"ring", "loop", "request", "wait", "done", "crashed", "blocked"}
    /\ pc' # pc

FairSilent == SpecSilent /\ WF_pc(AdvanceSilent)

\* C23: the run always terminates: under a valid configuration, also when
\* the collaborator never answers a request, the wait ends, the key is
\* recorded as not verified, and the run gets to its summary with an
\* outcome recorded for every url.
C23_RunAlwaysTerminates ==
    ValidStart ~> (pc = "done" /\ Len(results) = Len(urls))

-----------------------------------------------------------------------------
(* Properties of the counters and of the order of the steps, under SpecRun *)

\* The keys compared so far, and those of them reported as a match.
Compared == {i \in 1..Len(results) : results[i].verdict \in {"MATCH", "MISMATCH"}}

Matched == {i \in 1..Len(results) : results[i].verdict = "MATCH"}

\* C24: while the loop runs and after it, 0 <= match_count <= total_count
\* <= number of keys processed; total_count is the number of keys compared
\* and match_count the number of those whose normalized actual node equals
\* the expected node, so that a mismatch adds one to total_count and
\* nothing to match_count; a mismatch raises nothing; the summary prints
\* the two counters.
C24_CountersCountVerdicts ==
    /\ (\E i \in 1..Len(results) : results[i].verdict = "MISMATCH") =>
           pc # "crashed" /\ crash = ""
    /\ Counting =>
        /\ 0 <= match_count
        /\ match_count <= total_count
        /\ total_count <= Len(results)
        /\ total_count = Cardinality(Compared)
        /\ match_count = Cardinality(Matched)
        /\ \A i \in Compared :
               (results[i].verdict = "MATCH")
                   <=> (results[i].actual = results[i].expected)
        /\ pc = "done" =>
               /\ out[Len(out) - 1].tag = "summary"
               /\ out[Len(out) - 1].n = match_count
               /\ out[Len(out) - 1].m = total_count

\* A first call is over with one match, one mismatch, and 1/2 in its summary.
C24_Witness ==
    /\ run = 1
    /\ pc = "done"
    /\ \E i \in 1..Len(results) : results[i].verdict = "MISMATCH"
    /\ \E i \in 1..Len(results) : results[i].verdict = "MATCH"
    /\ out[Len(out) - 1] = Line("summary", <<>>, 1, 2)

\* The positions in the output of the lines that print an expected node:
\* one per prediction made by the call under way.
Predictions == {i \in 1..Len(out) : out[i].tag = "expected"}

\* C25, as stated: the expected nodes of all urls are computed before the
\* first request is issued.
C25_PredictionsUpFront ==
    reqs # <<>> => Cardinality(Predictions) = Len(urls)

\* C25, amended: the ring is built and listed before any prediction; the
\* expected node of a url is computed right before the request for that
\* url, after the outcomes of all earlier urls were recorded: at any moment
\* there is one prediction per request issued, and at most one more.
C25_PredictionBeforeEachRequest ==
    /\ \A i \in Predictions : \E j \in 1..(i - 1) : out[j].tag = "total"
    /\ Len(reqs) <= Cardinality(Predictions)
    /\ Cardinality(Predictions) <= Len(results) + 1
    /\ pc = "request" <=> Cardinality(Predictions) = Len(reqs) + 1

\* The second url has its prediction, made after the outcome of the first
\* was recorded and before any second request.
C25_Witness ==
    /\ pc = "request"
    /\ Cardinality(Predictions) = 2
    /\ Len(results) = 1
    /\ Len(reqs) = 1

-----------------------------------------------------------------------------
(* test_routing with the urls in another order *)

\* The orders in which a list of as many urls can be written.
Orders ==
    {o \in [1..Len(urls) -> 1..Len(urls)] :
        \A i, j \in 1..Len(urls) : i # j => o[i] # o[j]}

\* A second call of test_routing from which the urls of lines 92-101 are
\* taken in another order than the first call took them.
Reorder == \E o \in Orders : o # order /\ CallAgainWith(o)

\* Configuration of the calls compared: three nodes of one byte.
OrderConfigs == {JsonConfig(IntField(3), IntField(8))}

InitOrder == InitRun /\ cfg \in OrderConfigs

NextOrder ==
    \/ RunLoadConfig
    \/ BuildRing
    \/ Predict
    \/ SendRequest
    \/ \E r \in Answers : Receive(r)
    \/ Summary
    \/ Reorder

SpecOrder == InitOrder /\ [][NextOrder]_vars

\* The record of the url u among the records rs.
RecordOf(u, rs) == rs[CHOOSE i \in 1..Len(rs) : rs[i].url = u]

\* C26: with the answer to each url fixed, a call that takes the urls in
\* another order records for every url the same key, expected node, actual
\* node and verdict, and ends with the same match_count and total_count.
C26_OrderInsensitive ==
    (run = 2 /\ pc = "done") =>
        /\ \A k \in 1..Len(urls) :
               RecordOf(urls[k], results) = RecordOf(urls[k], firstRun.results)
        /\ match_count = firstRun.match_count
        /\ total_count = firstRun.total_count

\* A call in another order is over; the url it took first was answered
\* without the header and the url it took last was reported as a match.
C26_Witness ==
    /\ run = 2
    /\ pc = "done"
    /\ order # ListOrder
    /\ results[1].url # urls[1]
    /\ ~results[1].resp.has_header /\ Is200(results[1].resp)
    /\ results[Len(results)].verdict = "MATCH"

-----------------------------------------------------------------------------
(* The scan and a binary search, under SpecOwner *)

\* Binary search on a ring sorted ascending: the least position in lo..hi
\* whose entry is >= key_int as an unsigned integer, hi when there is none
\* below hi (positions from 1, hi = Len(ids) + 1 at the start).
RECURSIVE Bisect(_, _, _, _)
Bisect(key_int, ids, lo, hi) ==
    IF lo >= hi THEN lo
    ELSE LET mid == (lo + hi) \div 2
         IN  IF IntGe(IntHex(ids[mid]).val, key_int)
             THEN Bisect(key_int, ids, lo, mid)
             ELSE Bisect(key_int, ids, mid + 1, hi)

\* The owner by binary search: the entry found, the first entry when the
\* search runs off the end.
BinarySearchOwner(k, ids) ==
    LET p == Bisect(IntHex(k).val, ids, 1, Len(ids) + 1)
    IN  IF p > Len(ids) THEN ids[1] ELSE ids[p]

\* C27: on every non-empty ring sorted ascending, equal entries included,
\* and for every key, the linear scan of get_responsible_node returns the
\* owner a binary search for the first entry >= key returns, the first
\* entry when there is none.
C27_ScanEqualsBinarySearch ==
    (owner # NoCall /\ node_ids # <<>>) =>
        owner = Ok(BinarySearchOwner(key_hex, node_ids))

\* The scan has returned on a ring of three entries of which two are equal
\* to the key, the third being smaller.
C27_Witness ==
    /\ owner.kind = "ok"
    /\ Len(node_ids) = 3
    /\ node_ids[1] # key_hex
    /\ node_ids[2] = key_hex
    /\ node_ids[3] = key_hex

-----------------------------------------------------------------------------
(* The configuration and the ring during a call, under SpecRun *)

\* C28: in a call of test_routing the configuration is loaded once, at the
\* start, before the ring is built and before any identifier is derived;
\* the ring is assigned once, when it is built; after that no step, the
\* lookup of get_responsible_node included, changes the ring, NUM_NODES,
\* ID_BITS or BYTE_LEN, so that the keys and the ring entries are derived
\* under one configuration and have one length.
C28_ConfigurationAndRingFixed ==
    [][/\ pc # "start" => globals' = globals
       /\ pc' = "start" => pc \in {"start", "done"}
       /\ pc # "ring" => node_ids' = node_ids
       /\ key_hex' # key_hex => pc = "loop"
       /\ \A i \in 1..Len(results') : \A j \in 1..Len(node_ids') :
              Len(results'[i].key) = Len(node_ids'[j])]_vars

\* A call that loaded three nodes of one byte from the file is over, with
\* an outcome for every url.
C28_Witness ==
    /\ pc = "done"
    /\ cfg.state = "json"
    /\ NUM_NODES = 3
    /\ ID_BITS = 8
    /\ BYTE_LEN = 1
    /\ Len(node_ids) = 3
    /\ Len(results) = Len(urls)

\* A digit of lower-case hex: 0-9 or a-f.
IsLowerHexChar(c) == (48 <= c /\ c <= 57) \/ (97 <= c /\ c <= 102)

\* C29: the entries of the ring get_node_ids returned are strings of
\* lower-case hex digits of one length, 2 * BYTE_LEN when 1 <= ID_BITS <=
\* 160; on them the order of the strings, by which sorted() works, is the
\* order of the unsigned integers they denote, and the ring ascends in
\* both.
C29_StringOrderIsNumericOrder ==
    RingListed =>
        /\ \A i \in 1..Len(node_ids) :
               /\ Len(node_ids[i]) = Len(node_ids[1])
               /\ \A k \in 1..Len(node_ids[i]) : IsLowerHexChar(node_ids[i][k])
               /\ (1 <= ID_BITS /\ ID_BITS <= 160) =>
                      Len(node_ids[i]) = 2 * BYTE_LEN
        /\ \A i, j \in 1..Len(node_ids) :
               /\ (node_ids[i] # <<>> /\ node_ids[j] # <<>>) =>
                      (LexLess(node_ids[i], node_ids[j])
                           <=> IntLess(node_ids[i], node_ids[j]))
               /\ i < j => ~LexLess(node_ids[j], node_ids[i])

\* A ring of eight identifiers of 66 bits, 18 digits each, derived in an
\* order that is not ascending, was returned.
C29_Witness ==
    /\ RingListed
    /\ ID_BITS = 66
    /\ Len(node_ids) = 8
    /\ Len(node_ids[1]) = 18
    /\ PairwiseDistinct(node_ids)
    /\ \E i \in 1..(Len(DerivedList) - 1) :
           LexLess(DerivedList[i + 1], DerivedList[i])

(***************************************************************************)
(* The Stats object of deploy/ecs/locustfile.py and the task that feeds    *)
(* it.  The users of a locust worker are greenlets of one process; the     *)
(* methods of Stats hold no point at which a greenlet yields, so every     *)
(* call is one step.                                                       *)
(***************************************************************************)

\* The largest number of requests recorded, and the latest reading of the
\* clock.
MaxRequests == 6
MaxTime == 2

\* Stats.reset (lines 45-50); t is the reading of time.time().
reset(self, t) ==
    [requests |-> 0, hits |-> 0, misses |-> 0, errors |-> 0, start_time |-> t]

\* Stats.record_hit (lines 52-54).
record_hit(self) ==
    [self EXCEPT !.requests = @ + 1, !.hits = @ + 1]

\* Stats.record_miss (lines 56-58).
record_miss(self) ==
    [self EXCEPT !.requests = @ + 1, !.misses = @ + 1]

\* record_error without the count of the request.
record_error_uncounted(self) ==
    [self EXCEPT !.errors = @ + 1]

\* Stats.record_error (lines 60-62).
record_error(self) ==
    [self EXCEPT !.requests = @ + 1, !.errors = @ + 1]

\* str.upper() on a string of ASCII characters.
str_upper(s) ==
    [i \in 1..Len(s) |-> IF s[i] >= 97 /\ s[i] <= 122 THEN s[i] - 32 ELSE s[i]]

\* sub in s, for strings.
Contains(sub, s) ==
    \E k \in 0..(Len(s) - Len(sub)) :
        \A i \in 1..Len(sub) : s[k + i] = sub[i]

\* "HIT", and the values of the X-Cache header tried: "HIT", "hit", "MISS",
\* "Hit!", "TCP_HIT", "HI" and "".
HIT == <<72, 73, 84>>
CacheHeaders ==
    { HIT, <<104, 105, 116>>, <<77, 73, 83, 83>>, <<72, 105, 116, 33>>,
      <<84, 67, 80, 95>> \o HIT, <<72, 73>>, <<>> }

\* What self.client.get may come to: a response of status 200 with or
\* without the header, a response of another status (0 when the request
\* itself failed, which catch_response reports as a response), or an
\* exception.
CacheResponses ==
    {Response(200, TRUE, h) : h \in CacheHeaders}
        \cup {Response(st, FALSE, <<>>) : st \in {200, 0, 404, 500}}
        \cup {Failure}

\* Stats() at line 74 and on_start (lines 116-118): reset the counters.
Reset ==
    /\ \E t \in 0..MaxTime : stats' = reset(stats, t)
    /\ UNCHANGED <<globals, sha1, cfg, last, prev, key_hex, node_ids, owner,
                   runVars>>

\* ThroughputUser.cache_request (lines 90-112) with the response r.
CacheRequest(r) ==
    /\ stats.requests < MaxRequests
    /\ stats' =
           IF r.kind = "exception" THEN record_error(stats)
           ELSE IF r.status = 200
           THEN LET cache_status == IF r.has_header THEN r.header ELSE <<>>
                IN  IF Contains(HIT, str_upper(cache_status))
                    THEN record_hit(stats)
                    ELSE record_miss(stats)
           ELSE record_error(stats)
    /\ UNCHANGED <<globals, sha1, cfg, last, prev, key_hex, node_ids, owner,
                   runVars>>

\* locustfile.py as loaded: stats = Stats() has run reset.
InitStats ==
    /\ ModuleLoaded
    /\ sha1 \in {t \in Sha1Tables : t[MessageList[1]] = DigestList[1]}
    /\ prev = NoApiCall
    /\ key_hex = <<>>
    /\ node_ids = <<>>
    /\ owner = NoCall
    /\ RunIdle
    /\ \E t \in 0..MaxTime : stats = reset(NoStats, t)

NextStats ==
    \/ Reset
    \/ \E r \in CacheResponses : CacheRequest(r)

SpecStats == InitStats /\ [][NextStats]_vars

\* The step set every counter to zero.
Zeroed ==
    /\ stats'.requests = 0
    /\ stats'.hits = 0
    /\ stats'.misses = 0
    /\ stats'.errors = 0

\* The step raised requests and exactly one of hits, misses and errors by
\* one, and left the other two and start_time alone.
RecordedOne ==
    /\ stats'.requests = stats.requests + 1
    /\ \E f \in {"hits", "misses", "errors"} :
           /\ stats'[f] = stats[f] + 1
           /\ \A g \in {"hits", "misses", "errors"} \ {f} : stats'[g] = stats[g]
    /\ stats'.start_time = stats.start_time

\* The counters are consistent in the state the step leaves.
Consistent ==
    /\ stats'.requests = stats'.hits + stats'.misses + stats'.errors
    /\ stats'.requests >= 0
    /\ stats'.hits >= 0
    /\ stats'.misses >= 0
    /\ stats'.errors >= 0

\* C30: after any sequence of resets and recorded requests, requests =
\* hits + misses + errors and no counter is negative; every step of the
\* Stats object is a reset, which leaves the four counters at 0, or the
\* record of one request, which raises requests and exactly one of hits,
\* misses and errors by exactly 1.
C30_StatsConsistent ==
    [][(Zeroed \/ RecordedOne) /\ Consistent]_vars

\* One hit, one miss and one error were recorded after a reset at a later
\* reading of the clock.
C30_Witness ==
    /\ stats.start_time > 0
    /\ stats.requests = 3
    /\ stats.hits = 1
    /\ stats.misses = 1
    /\ stats.errors = 1

====
